---- MODULE Spec2Model ----
(***************************************************************************)
(* Model of mcp-client-typescript/index.ts: the MCPClient class            *)
(* (connectToServer, processQuery, cleanup), main() and the /chat handler. *)
(*                                                                         *)
(* Every action is one run of the event loop: the code from one await      *)
(* resumption (or handler entry) to the next await, return or throw.       *)
(* The Language Model Service, the Tool Host and the SDK client are        *)
(* external: each pending call is settled by an action that draws its      *)
(* outcome (a response, or a failure) from a small set.                    *)
(***************************************************************************)
EXTENDS Naturals, Sequences, FiniteSets, TLC

(***************************************************************************)
(* Bounds of the model.                                                    *)
(***************************************************************************)
\* request slots of the /chat endpoint that may be open at the same time
NumRequests == 2
\* longest initial model response (in blocks)
MaxBlocks == 3
\* longest follow-up model response (in blocks)
MaxFollowBlocks == 1
\* most SIGTERM signals delivered to the process
MaxSignals == 2

Requests == 1..NumRequests

(***************************************************************************)
(* Values.                                                                 *)
(***************************************************************************)
\* the absent value: undefined / null
None == "<none>"

\* tool arguments: an ordered mapping, as a sequence of <<key, value>> pairs
NoArgs == << >>
PathArgs == << <<"path", "a.txt">> >>

\* content blocks of a model response (ContentBlock of the SDK)
TextBlock(t) == [type |-> "text", text |-> t, name |-> None, input |-> NoArgs]
ToolUseBlock(n, a) == [type |-> "tool_use", text |-> None, name |-> n, input |-> a]
OtherBlock == [type |-> "thinking", text |-> None, name |-> None, input |-> NoArgs]

Texts == {"", "4"}
Blocks ==
  {TextBlock(t) : t \in Texts}
    \cup {ToolUseBlock("list_files", NoArgs), ToolUseBlock("read_file", PathArgs)}
    \cup {OtherBlock}
FollowBlocks == {TextBlock("Found"), ToolUseBlock("list_files", NoArgs)}

\* all sequences over S of length at most n
SeqsUpTo(S, n) == UNION {[1..k -> S] : k \in 0..n}

\* model responses drawn when one request is served at a time
InitialResponses == SeqsUpTo(Blocks, MaxBlocks)
FollowUpResponses == SeqsUpTo(FollowBlocks, MaxFollowBlocks)

\* model responses drawn when requests overlap
SysInitialResponses ==
  { << >>,
    <<TextBlock("4")>>,
    <<ToolUseBlock("list_files", NoArgs)>>,
    <<ToolUseBlock("list_files", NoArgs), ToolUseBlock("read_file", PathArgs)>> }
SysFollowUpResponses == { << >>, <<TextBlock("Found")>> }

\* content of a tool result: when one request is served at a time, when they overlap
ToolContents == {"a.txt, b.txt", "hello"}
SysToolContents == {"a.txt, b.txt"}

\* request bodies of POST /chat: the query field (None when it is missing)
Bodies == {None, "", "list files"}

\* tool descriptors of the Tool Host (listTools)
Descriptor(n) == [name |-> n, description |-> "d", inputSchema |-> "schema"]
Catalogs == { << >>, <<Descriptor("list_files")>> }

\* script paths, as sequences of characters
Paths ==
  { <<"s", ".", "j", "s">>, <<"s", ".", "p", "y">>, <<"s", ".", "t", "s">>,
    <<"j", "s">>, <<"s", ".", "j", "s", "x">>, << >> }
\* process.argv after "node" and the program: empty, or the script path
Argvs == {<< >>} \cup {<<p>> : p \in Paths}

\* errors
InvalidScriptType == "Server script must be a .js or .py file"
ConnectionError == "ConnectionError"
ModelServiceError == "ModelServiceError"
ToolHostError == "ToolHostError"
TypeError == "TypeError"
Errors == {InvalidScriptType, ConnectionError, ModelServiceError, ToolHostError, TypeError}

(***************************************************************************)
(* Pure functions of the source.                                           *)
(***************************************************************************)
\* a test that accepts the suffix anywhere in s (String.prototype.includes)
Includes(s, suffix) ==
  \E i \in 1..Len(s) :
    /\ i + Len(suffix) - 1 <= Len(s)
    /\ SubSeq(s, i, i + Len(suffix) - 1) = suffix

\* String.prototype.endsWith, on character sequences
EndsWith(s, suffix) ==
  /\ Len(s) >= Len(suffix)
  /\ SubSeq(s, Len(s) - Len(suffix) + 1, Len(s)) = suffix

DotJs == <<".", "j", "s">>
DotPy == <<".", "p", "y">>

\* the extension test of connectToServer
ValidScript(path) == EndsWith(path, DotJs) \/ EndsWith(path, DotPy)

\* Array.prototype.join: the elements separated by sep
RECURSIVE JoinWith(_, _)
JoinWith(strs, sep) ==
  IF Len(strs) = 0 THEN ""
  ELSE IF Len(strs) = 1 THEN strs[1]
  ELSE strs[1] \o sep \o JoinWith(Tail(strs), sep)

\* a join that only concatenates
JoinNoSeparator(strs) == JoinWith(strs, "")

Join(strs) == JoinWith(strs, "\n")

\* JSON.stringify of an argument mapping (compact, keys in the received order)
JSONPair(p) == "\"" \o p[1] \o "\":\"" \o p[2] \o "\""
JSONStringify(args) ==
  "{" \o JoinWith([i \in 1..Len(args) |-> JSONPair(args[i])], ",") \o "}"

\* the trace line pushed after a tool call
TraceLine(toolName, toolArgs) ==
  "[Calling tool " \o toolName \o " with args " \o JSONStringify(toolArgs) \o "]"

\* toolsResult.tools.map(...) of connectToServer
MapTool(tool) ==
  [name |-> tool.name, description |-> tool.description, input_schema |-> tool.inputSchema]
MapTools(listed) == [i \in 1..Len(listed) |-> MapTool(listed[i])]

\* a conversation turn
UserTurn(c) == [role |-> "user", content |-> c]

\* a settled or pending promise of processQuery
NoOutcome == [state |-> "none", value |-> None]
Fulfilled(v) == [state |-> "fulfilled", value |-> v]
Rejected(e) == [state |-> "rejected", value |-> e]

\* an HTTP response: res.status(s).json({field: value})
NoHttp == [status |-> 0, body |-> <<None, None>>]
Http(s, field, value) == [status |-> s, body |-> <<field, value>>]

\* the transport field of MCPClient
NullTransport == [command |-> None, args |-> << >>]

\* entries of the per-query log of external calls
\* messages.create issued with a conversation and, when withTools, a catalog
CreateIssued(msgs, withTools, tls) ==
  [op |-> "messages.create", phase |-> "issued", messages |-> msgs,
   hasTools |-> withTools, tools |-> tls, name |-> None, arguments |-> NoArgs]
\* messages.create resolved or rejected
CreateSettled(phase) ==
  [op |-> "messages.create", phase |-> phase, messages |-> << >>,
   hasTools |-> FALSE, tools |-> << >>, name |-> None, arguments |-> NoArgs]
\* callTool issued, resolved or rejected
CallToolEvent(phase, n, a) ==
  [op |-> "callTool", phase |-> phase, messages |-> << >>,
   hasTools |-> FALSE, tools |-> << >>, name |-> n, arguments |-> a]

(***************************************************************************)
(* State.                                                                  *)
(***************************************************************************)
VARIABLES
  argv,        \* process.argv.slice(2)
  mainPc,      \* position of main()
  exitStatus,  \* "running", "exit0" or "exit1"
  transport,   \* MCPClient.transport
  tools,       \* MCPClient.tools
  mcpCalls,    \* calls made on the Tool Host client by connectToServer, in order
  mcpConnect,  \* the promise returned by this.mcp.connect (never awaited)
  connectError,\* what connectToServer threw, None when nothing
  listening,   \* routes registered and app.listen called
  inflight,    \* callTool requests pending on the shared Tool Host connection
  pc,          \* per request: position of chatHandler / processQuery
  query,       \* per request: the query of the body
  messages,    \* per request: the conversation
  response,    \* per request: content of the initial model response
  idx,         \* per request: position of the for loop in response.content
  followUp,    \* per request: content of the latest follow-up model response
  finalText,   \* per request: finalText
  toolResults, \* per request: toolResults
  log,         \* per request: external calls issued and settled, in order
  outcome,     \* per request: how the promise of processQuery settled
  http,        \* per request: what chatHandler sent
  closeCalls,  \* this.mcp.close() calls issued by cleanup()
  closing,     \* SIGTERM handlers awaiting cleanup()
  channelClosed \* a close of the Tool Host channel has completed

procVars == <<argv, mainPc, exitStatus, transport, tools, mcpCalls, mcpConnect,
              connectError, listening>>
reqVars == <<pc, query, messages, response, idx, followUp, finalText, toolResults, log,
             outcome, http>>
shutVars == <<closeCalls, closing, channelClosed>>
vars == <<procVars, inflight, reqVars, shutVars>>

Init ==
  /\ argv \in Argvs
  /\ mainPc = "start"
  /\ exitStatus = "running"
  /\ transport = NullTransport
  /\ tools = << >>
  /\ mcpCalls = << >>
  /\ mcpConnect = "none"
  /\ connectError = None
  /\ listening = FALSE
  /\ inflight = {}
  /\ pc = [q \in Requests |-> "idle"]
  /\ query = [q \in Requests |-> None]
  /\ messages = [q \in Requests |-> << >>]
  /\ response = [q \in Requests |-> << >>]
  /\ idx = [q \in Requests |-> 0]
  /\ followUp = [q \in Requests |-> << >>]
  /\ finalText = [q \in Requests |-> << >>]
  /\ toolResults = [q \in Requests |-> << >>]
  /\ log = [q \in Requests |-> << >>]
  /\ outcome = [q \in Requests |-> NoOutcome]
  /\ http = [q \in Requests |-> NoHttp]
  /\ closeCalls = 0
  /\ closing = 0
  /\ channelClosed = FALSE

(***************************************************************************)
(* main() and connectToServer.                                             *)
(***************************************************************************)
\* the command of the subprocess
Command(path, platform) ==
  IF EndsWith(path, DotPy)
  THEN (IF platform = "win32" THEN "python" ELSE "python3")
  ELSE "execPath"

\* main with no script argument: prints the usage and returns
MainUsage ==
  /\ mainPc = "start" /\ exitStatus = "running"
  /\ Len(argv) < 1
  /\ mainPc' = "returned"
  /\ exitStatus' = "exit0"
  /\ UNCHANGED <<argv, transport, tools, mcpCalls, mcpConnect, connectError, listening>>
  /\ UNCHANGED <<inflight, reqVars, shutVars>>

\* connectToServer throws on the extension; main's catch exits with 1
MainInvalidScript ==
  /\ mainPc = "start" /\ exitStatus = "running"
  /\ Len(argv) >= 1
  /\ ~ValidScript(argv[1])
  /\ connectError' = InvalidScriptType
  /\ mainPc' = "exited"
  /\ exitStatus' = "exit1"
  /\ UNCHANGED <<argv, transport, tools, mcpCalls, mcpConnect, listening>>
  /\ UNCHANGED <<inflight, reqVars, shutVars>>

\* connectToServer up to its await: transport, connect (not awaited), listTools
MainConnect(platform) ==
  /\ mainPc = "start" /\ exitStatus = "running"
  /\ Len(argv) >= 1
  /\ ValidScript(argv[1])
  /\ transport' = [command |-> Command(argv[1], platform), args |-> <<argv[1]>>]
  /\ mcpConnect' = "pending"
  /\ mcpCalls' = mcpCalls \o <<"connect", "listTools">>
  /\ mainPc' = "awaitListTools"
  /\ UNCHANGED <<argv, exitStatus, tools, connectError, listening>>
  /\ UNCHANGED <<inflight, reqVars, shutVars>>

\* listTools resolves: the catalog is cached, the routes are registered, listen
ListToolsResolve(listed) ==
  /\ mainPc = "awaitListTools" /\ exitStatus = "running"
  /\ tools' = MapTools(listed)
  /\ listening' = TRUE
  /\ mainPc' = "serving"
  /\ UNCHANGED <<argv, exitStatus, transport, mcpCalls, mcpConnect, connectError>>
  /\ UNCHANGED <<inflight, reqVars, shutVars>>

\* listTools rejects: connectToServer rethrows, main's catch exits with 1
ListToolsReject ==
  /\ mainPc = "awaitListTools" /\ exitStatus = "running"
  /\ connectError' = ConnectionError
  /\ mainPc' = "exited"
  /\ exitStatus' = "exit1"
  /\ UNCHANGED <<argv, transport, tools, mcpCalls, mcpConnect, listening>>
  /\ UNCHANGED <<inflight, reqVars, shutVars>>

\* the promise of this.mcp.connect fulfils; nothing awaits it
ConnectFulfil ==
  /\ mcpConnect = "pending" /\ exitStatus = "running"
  /\ mcpConnect' = "fulfilled"
  /\ UNCHANGED <<argv, mainPc, exitStatus, transport, tools, mcpCalls, connectError,
                 listening>>
  /\ UNCHANGED <<inflight, reqVars, shutVars>>

\* the promise of this.mcp.connect rejects; nothing awaits it, so the rejection is
\* unhandled: the runtime either only warns or ends the process with code 1
ConnectReject(fatal) ==
  /\ mcpConnect = "pending" /\ exitStatus = "running"
  /\ mcpConnect' = "rejected"
  /\ exitStatus' = IF fatal THEN "exit1" ELSE exitStatus
  /\ UNCHANGED <<argv, mainPc, transport, tools, mcpCalls, connectError, listening>>
  /\ UNCHANGED <<inflight, reqVars, shutVars>>

(***************************************************************************)
(* chatHandler and processQuery.                                           *)
(***************************************************************************)
\* a handler that answers a failure like an empty success
ChatReplyMasked(oc) ==
  Http(200, "response", IF oc.state = "fulfilled" THEN oc.value ELSE "")

\* what chatHandler sends for a settled processQuery
ChatReply(oc) ==
  IF oc.state = "fulfilled"
  THEN Http(200, "response", oc.value)
  ELSE Http(500, "error", "Failed to process query")

\* the for loop from block i on, as far as it runs without suspending: text blocks
\* are pushed, other blocks skipped; it stops at a tool_use block or at the end
RECURSIVE Dispatch(_, _, _)
Dispatch(content, i, ft) ==
  IF i > Len(content) THEN [idx |-> i, finalText |-> ft]
  ELSE IF content[i].type = "text"
    THEN Dispatch(content, i + 1, Append(ft, content[i].text))
  ELSE IF content[i].type = "tool_use"
    THEN [idx |-> i, finalText |-> ft]
  ELSE Dispatch(content, i + 1, ft)

\* a pending callTool request of request q for block i
Pending(q, i, block) == [req |-> q, idx |-> i, name |-> block.name, arguments |-> block.input]

\* processQuery throws err (or an awaited call rejected with it): chatHandler's catch
Throw(q, err, lg) ==
  /\ pc' = [pc EXCEPT ![q] = "done"]
  /\ outcome' = [outcome EXCEPT ![q] = Rejected(err)]
  /\ http' = [http EXCEPT ![q] = ChatReply(Rejected(err))]
  /\ log' = [log EXCEPT ![q] = lg]

\* a loop that does not await callTool: reaching a tool_use block it also issues
\* the calls of all later tool_use blocks
RunLoopNoAwait(q, content, i, ft, lg) ==
  LET d == Dispatch(content, i, ft) IN
  /\ idx' = [idx EXCEPT ![q] = d.idx]
  /\ finalText' = [finalText EXCEPT ![q] = d.finalText]
  /\ IF d.idx > Len(content)
     THEN /\ pc' = [pc EXCEPT ![q] = "done"]
          /\ outcome' = [outcome EXCEPT ![q] = Fulfilled(Join(d.finalText))]
          /\ http' = [http EXCEPT ![q] = ChatReply(Fulfilled(Join(d.finalText)))]
          /\ log' = [log EXCEPT ![q] = lg]
          /\ inflight' = inflight
     ELSE /\ pc' = [pc EXCEPT ![q] = "awaitTool"]
          /\ log' = [log EXCEPT ![q] =
               Append(lg, CallToolEvent("issued", content[d.idx].name, content[d.idx].input))]
          /\ inflight' = inflight \cup
               {Pending(q, j, content[j]) :
                  j \in {k \in d.idx..Len(content) : content[k].type = "tool_use"}}
          /\ UNCHANGED <<outcome, http>>

\* the loop resumes at block i with finalText ft: it runs to the next callTool,
\* or to the return and the reply of chatHandler
RunLoop(q, content, i, ft, lg) ==
  LET d == Dispatch(content, i, ft) IN
  /\ idx' = [idx EXCEPT ![q] = d.idx]
  /\ finalText' = [finalText EXCEPT ![q] = d.finalText]
  /\ IF d.idx > Len(content)
     THEN /\ pc' = [pc EXCEPT ![q] = "done"]
          /\ outcome' = [outcome EXCEPT ![q] = Fulfilled(Join(d.finalText))]
          /\ http' = [http EXCEPT ![q] = ChatReply(Fulfilled(Join(d.finalText)))]
          /\ log' = [log EXCEPT ![q] = lg]
          /\ inflight' = inflight
     ELSE /\ pc' = [pc EXCEPT ![q] = "awaitTool"]
          /\ log' = [log EXCEPT ![q] =
               Append(lg, CallToolEvent("issued", content[d.idx].name, content[d.idx].input))]
          /\ inflight' = inflight \cup {Pending(q, d.idx, content[d.idx])}
          /\ UNCHANGED <<outcome, http>>

\* a handler whose finalText outlives the query: it is not emptied at the start
RequestKeepsText(q, body) ==
  /\ listening /\ exitStatus = "running"
  /\ pc[q] \in {"idle", "done"}
  /\ query' = [query EXCEPT ![q] = body]
  /\ response' = [response EXCEPT ![q] = << >>]
  /\ idx' = [idx EXCEPT ![q] = 0]
  /\ followUp' = [followUp EXCEPT ![q] = << >>]
  /\ finalText' = finalText
  /\ toolResults' = [toolResults EXCEPT ![q] = << >>]
  /\ outcome' = [outcome EXCEPT ![q] = NoOutcome]
  /\ IF body = None \/ body = ""
     THEN /\ http' = [http EXCEPT ![q] = Http(400, "error", "Query is required")]
          /\ pc' = [pc EXCEPT ![q] = "done"]
          /\ messages' = [messages EXCEPT ![q] = << >>]
          /\ log' = [log EXCEPT ![q] = << >>]
     ELSE /\ http' = [http EXCEPT ![q] = NoHttp]
          /\ pc' = [pc EXCEPT ![q] = "awaitInitial"]
          /\ messages' = [messages EXCEPT ![q] = <<UserTurn(body)>>]
          /\ log' = [log EXCEPT ![q] = <<CreateIssued(<<UserTurn(body)>>, TRUE, tools)>>]
  /\ UNCHANGED <<procVars, shutVars, inflight>>

\* POST /chat arrives with a body
Request(q, body) ==
  /\ listening /\ exitStatus = "running"
  /\ pc[q] \in {"idle", "done"}
  /\ query' = [query EXCEPT ![q] = body]
  /\ response' = [response EXCEPT ![q] = << >>]
  /\ idx' = [idx EXCEPT ![q] = 0]
  /\ followUp' = [followUp EXCEPT ![q] = << >>]
  /\ finalText' = [finalText EXCEPT ![q] = << >>]
  /\ toolResults' = [toolResults EXCEPT ![q] = << >>]
  /\ outcome' = [outcome EXCEPT ![q] = NoOutcome]
  /\ IF body = None \/ body = ""
     THEN /\ http' = [http EXCEPT ![q] = Http(400, "error", "Query is required")]
          /\ pc' = [pc EXCEPT ![q] = "done"]
          /\ messages' = [messages EXCEPT ![q] = << >>]
          /\ log' = [log EXCEPT ![q] = << >>]
     ELSE /\ http' = [http EXCEPT ![q] = NoHttp]
          /\ pc' = [pc EXCEPT ![q] = "awaitInitial"]
          /\ messages' = [messages EXCEPT ![q] = <<UserTurn(body)>>]
          /\ log' = [log EXCEPT ![q] = <<CreateIssued(<<UserTurn(body)>>, TRUE, tools)>>]
  /\ UNCHANGED <<procVars, shutVars, inflight>>

\* the initial model call resolves with a response
InitialResolve(q, content) ==
  /\ pc[q] = "awaitInitial" /\ exitStatus = "running"
  /\ response' = [response EXCEPT ![q] = content]
  /\ RunLoop(q, content, 1, << >>, Append(log[q], CreateSettled("resolved")))
  /\ UNCHANGED <<procVars, shutVars, query, messages, followUp, toolResults>>

\* the initial model call rejects
InitialReject(q) ==
  /\ pc[q] = "awaitInitial" /\ exitStatus = "running"
  /\ Throw(q, ModelServiceError, Append(log[q], CreateSettled("rejected")))
  /\ UNCHANGED <<procVars, shutVars, inflight, query, messages, response, idx, followUp, finalText,
                 toolResults>>

\* callTool resolves, and the follow-up call is issued before the result turn is
\* pushed: it carries the conversation without the result
ToolResolveStaleConversation(q, resultContent) ==
  /\ pc[q] = "awaitTool" /\ exitStatus = "running"
  /\ LET block == response[q][idx[q]]
         msgs == Append(messages[q], UserTurn(resultContent))
     IN /\ inflight' = inflight \ {Pending(q, idx[q], block)}
        /\ toolResults' = [toolResults EXCEPT ![q] = Append(@, [content |-> resultContent])]
        /\ finalText' = [finalText EXCEPT ![q] = Append(@, TraceLine(block.name, block.input))]
        /\ messages' = [messages EXCEPT ![q] = msgs]
        /\ log' = [log EXCEPT ![q] =
             @ \o <<CallToolEvent("resolved", block.name, block.input),
                    CreateIssued(messages[q], FALSE, << >>)>>]
  /\ pc' = [pc EXCEPT ![q] = "awaitFollowUp"]
  /\ UNCHANGED <<procVars, shutVars, query, response, idx, followUp, outcome, http>>

\* callTool resolves, and the follow-up call is made with the catalog attached
ToolResolveWithCatalog(q, resultContent) ==
  /\ pc[q] = "awaitTool" /\ exitStatus = "running"
  /\ LET block == response[q][idx[q]]
         msgs == Append(messages[q], UserTurn(resultContent))
     IN /\ inflight' = inflight \ {Pending(q, idx[q], block)}
        /\ toolResults' = [toolResults EXCEPT ![q] = Append(@, [content |-> resultContent])]
        /\ finalText' = [finalText EXCEPT ![q] = Append(@, TraceLine(block.name, block.input))]
        /\ messages' = [messages EXCEPT ![q] = msgs]
        /\ log' = [log EXCEPT ![q] =
             @ \o <<CallToolEvent("resolved", block.name, block.input),
                    CreateIssued(msgs, TRUE, tools)>>]
  /\ pc' = [pc EXCEPT ![q] = "awaitFollowUp"]
  /\ UNCHANGED <<procVars, shutVars, query, response, idx, followUp, outcome, http>>

\* callTool resolves, and the conversation is one array shared by all the queries
\* in progress: the result turn lands in each of them
ToolResolveShared(q, resultContent) ==
  /\ pc[q] = "awaitTool" /\ exitStatus = "running"
  /\ LET block == response[q][idx[q]]
         msgs == Append(messages[q], UserTurn(resultContent))
     IN /\ inflight' = inflight \ {Pending(q, idx[q], block)}
        /\ toolResults' = [toolResults EXCEPT ![q] = Append(@, [content |-> resultContent])]
        /\ finalText' = [finalText EXCEPT ![q] = Append(@, TraceLine(block.name, block.input))]
        /\ messages' = [p \in Requests |->
             IF pc[p] \in {"awaitInitial", "awaitTool", "awaitFollowUp"}
             THEN Append(messages[p], UserTurn(resultContent))
             ELSE messages[p]]
        /\ log' = [log EXCEPT ![q] =
             @ \o <<CallToolEvent("resolved", block.name, block.input),
                    CreateIssued(msgs, FALSE, << >>)>>]
  /\ pc' = [pc EXCEPT ![q] = "awaitFollowUp"]
  /\ UNCHANGED <<procVars, shutVars, query, response, idx, followUp, outcome, http>>

\* callTool resolves with a result: trace line, result turn, follow-up model call
ToolResolve(q, resultContent) ==
  /\ pc[q] = "awaitTool" /\ exitStatus = "running"
  /\ LET block == response[q][idx[q]]
         msgs == Append(messages[q], UserTurn(resultContent))
     IN /\ inflight' = inflight \ {Pending(q, idx[q], block)}
        /\ toolResults' = [toolResults EXCEPT ![q] = Append(@, [content |-> resultContent])]
        /\ finalText' = [finalText EXCEPT ![q] = Append(@, TraceLine(block.name, block.input))]
        /\ messages' = [messages EXCEPT ![q] = msgs]
        /\ log' = [log EXCEPT ![q] =
             @ \o <<CallToolEvent("resolved", block.name, block.input),
                    CreateIssued(msgs, FALSE, << >>)>>]
  /\ pc' = [pc EXCEPT ![q] = "awaitFollowUp"]
  /\ UNCHANGED <<procVars, shutVars, query, response, idx, followUp, outcome, http>>

\* callTool rejects and the same call is issued once more
ToolRejectRetried(q) ==
  /\ pc[q] = "awaitTool" /\ exitStatus = "running"
  /\ log[q][Len(log[q]) - 1].phase # "rejected"
  /\ LET block == response[q][idx[q]]
     IN log' = [log EXCEPT ![q] =
          @ \o <<CallToolEvent("rejected", block.name, block.input),
                 CallToolEvent("issued", block.name, block.input)>>]
  /\ UNCHANGED <<procVars, shutVars, inflight, pc, query, messages, response, idx,
                 followUp, finalText, toolResults, outcome, http>>

\* callTool rejects and the error is swallowed: the partial text is returned
ToolRejectSwallowed(q) ==
  /\ pc[q] = "awaitTool" /\ exitStatus = "running"
  /\ LET block == response[q][idx[q]]
     IN /\ inflight' = inflight \ {Pending(q, idx[q], block)}
        /\ log' = [log EXCEPT ![q] =
             Append(@, CallToolEvent("rejected", block.name, block.input))]
  /\ pc' = [pc EXCEPT ![q] = "done"]
  /\ outcome' = [outcome EXCEPT ![q] = Fulfilled(Join(finalText[q]))]
  /\ http' = [http EXCEPT ![q] = ChatReply(Fulfilled(Join(finalText[q])))]
  /\ UNCHANGED <<procVars, shutVars, query, messages, response, idx, followUp, finalText, toolResults>>

\* callTool rejects
ToolReject(q) ==
  /\ pc[q] = "awaitTool" /\ exitStatus = "running"
  /\ LET block == response[q][idx[q]]
     IN /\ inflight' = inflight \ {Pending(q, idx[q], block)}
        /\ Throw(q, ToolHostError,
                 Append(log[q], CallToolEvent("rejected", block.name, block.input)))
  /\ UNCHANGED <<procVars, shutVars, query, messages, response, idx, followUp, finalText, toolResults>>

\* what is pushed for a follow-up response with at least one block
FollowUpText(content) == IF content[1].type = "text" THEN content[1].text ELSE ""

\* a follow-up handler that expands a tool_use block of the follow-up response: it
\* issues a callTool for it
FollowUpResolveExpanding(q, content) ==
  /\ pc[q] = "awaitFollowUp" /\ exitStatus = "running"
  /\ followUp' = [followUp EXCEPT ![q] = content]
  /\ IF Len(content) = 0
     THEN /\ Throw(q, TypeError, Append(log[q], CreateSettled("resolved")))
          /\ UNCHANGED <<inflight, idx, finalText>>
     ELSE IF content[1].type = "tool_use"
     THEN /\ pc' = [pc EXCEPT ![q] = "awaitTool"]
          /\ log' = [log EXCEPT ![q] =
               @ \o <<CreateSettled("resolved"),
                      CallToolEvent("issued", content[1].name, content[1].input)>>]
          /\ inflight' = inflight \cup {Pending(q, idx[q], response[q][idx[q]])}
          /\ UNCHANGED <<idx, finalText, outcome, http>>
     ELSE RunLoop(q, response[q], idx[q] + 1, Append(finalText[q], FollowUpText(content)),
                  Append(log[q], CreateSettled("resolved")))
  /\ UNCHANGED <<procVars, shutVars, query, messages, response, toolResults>>

\* the follow-up model call resolves: response.content[0] is read (a TypeError when
\* the content is empty), its text or "" is pushed, and the loop goes on
FollowUpResolve(q, content) ==
  /\ pc[q] = "awaitFollowUp" /\ exitStatus = "running"
  /\ followUp' = [followUp EXCEPT ![q] = content]
  /\ IF Len(content) = 0
     THEN /\ Throw(q, TypeError, Append(log[q], CreateSettled("resolved")))
          /\ UNCHANGED <<inflight, idx, finalText>>
     ELSE RunLoop(q, response[q], idx[q] + 1, Append(finalText[q], FollowUpText(content)),
                  Append(log[q], CreateSettled("resolved")))
  /\ UNCHANGED <<procVars, shutVars, query, messages, response, toolResults>>

\* the follow-up model call rejects, is caught inside the loop, and the loop goes on
FollowUpRejectCaught(q) ==
  /\ pc[q] = "awaitFollowUp" /\ exitStatus = "running"
  /\ RunLoop(q, response[q], idx[q] + 1, Append(finalText[q], ""),
             Append(log[q], CreateSettled("rejected")))
  /\ UNCHANGED <<procVars, shutVars, query, messages, response, followUp, toolResults>>

\* the follow-up model call rejects
FollowUpReject(q) ==
  /\ pc[q] = "awaitFollowUp" /\ exitStatus = "running"
  /\ Throw(q, ModelServiceError, Append(log[q], CreateSettled("rejected")))
  /\ UNCHANGED <<procVars, shutVars, inflight, query, messages, response, idx, followUp, finalText,
                 toolResults>>

(***************************************************************************)
(* cleanup() and the SIGTERM handler.                                      *)
(***************************************************************************)
\* SIGTERM arrives: the handler calls cleanup(), which calls this.mcp.close() and
\* awaits it
Sigterm ==
  /\ mainPc = "serving" /\ exitStatus = "running"
  /\ closeCalls < MaxSignals
  /\ closeCalls' = closeCalls + 1
  /\ closing' = closing + 1
  /\ UNCHANGED <<procVars, inflight, reqVars, channelClosed>>

\* a pending close resolves: cleanup() returns and the handler calls process.exit(0)
CloseResolve ==
  /\ closing > 0 /\ exitStatus = "running"
  /\ closing' = closing - 1
  /\ channelClosed' = TRUE
  /\ exitStatus' = "exit0"
  /\ UNCHANGED <<argv, mainPc, transport, tools, mcpCalls, mcpConnect, connectError,
                 listening>>
  /\ UNCHANGED <<inflight, reqVars, closeCalls>>

\* a pending close rejects: cleanup() throws inside the async handler, process.exit
\* is not reached, and the rejection is unhandled (a warning, or exit code 1)
CloseReject(fatal) ==
  /\ closing > 0 /\ exitStatus = "running"
  /\ closing' = closing - 1
  /\ exitStatus' = IF fatal THEN "exit1" ELSE exitStatus
  /\ UNCHANGED <<argv, mainPc, transport, tools, mcpCalls, mcpConnect, connectError,
                 listening>>
  /\ UNCHANGED <<inflight, reqVars, closeCalls, channelClosed>>

(***************************************************************************)
(* Specifications.                                                         *)
(***************************************************************************)
Startup ==
  \/ MainUsage
  \/ MainInvalidScript
  \/ \E platform \in {"win32", "linux"} : MainConnect(platform)
  \/ \E listed \in Catalogs : ListToolsResolve(listed)
  \/ ListToolsReject
  \/ ConnectFulfil
  \/ \E fatal \in BOOLEAN : ConnectReject(fatal)

\* the whole program, with concurrent requests
Next ==
  \/ Startup
  \/ \E q \in Requests :
       \/ \E body \in Bodies : Request(q, body)
       \/ \E content \in SysInitialResponses : InitialResolve(q, content)
       \/ InitialReject(q)
       \/ \E r \in SysToolContents : ToolResolve(q, r)
       \/ ToolReject(q)
       \/ \E content \in SysFollowUpResponses : FollowUpResolve(q, content)
       \/ FollowUpReject(q)

Spec == Init /\ [][Next]_vars

\* a connected session: the state main() reaches once the catalog is cached
InitQuery ==
  /\ argv = << <<"s", ".", "j", "s">> >>
  /\ mainPc = "serving"
  /\ exitStatus = "running"
  /\ transport = [command |-> "execPath", args |-> argv]
  /\ tools \in {MapTools(listed) : listed \in Catalogs}
  /\ mcpCalls = <<"connect", "listTools">>
  /\ mcpConnect = "fulfilled"
  /\ connectError = None
  /\ listening = TRUE
  /\ inflight = {}
  /\ pc = [q \in Requests |-> "idle"]
  /\ query = [q \in Requests |-> None]
  /\ messages = [q \in Requests |-> << >>]
  /\ response = [q \in Requests |-> << >>]
  /\ idx = [q \in Requests |-> 0]
  /\ followUp = [q \in Requests |-> << >>]
  /\ finalText = [q \in Requests |-> << >>]
  /\ toolResults = [q \in Requests |-> << >>]
  /\ log = [q \in Requests |-> << >>]
  /\ outcome = [q \in Requests |-> NoOutcome]
  /\ http = [q \in Requests |-> NoHttp]
  /\ closeCalls = 0
  /\ closing = 0
  /\ channelClosed = FALSE

\* a connected session serving one request at a time, with every model response
NextQuery ==
  \/ \E body \in Bodies : Request(1, body)
  \/ \E content \in InitialResponses : InitialResolve(1, content)
  \/ InitialReject(1)
  \/ \E r \in ToolContents : ToolResolve(1, r)
  \/ ToolReject(1)
  \/ \E content \in FollowUpResponses : FollowUpResolve(1, content)
  \/ FollowUpReject(1)

SpecQuery == InitQuery /\ [][NextQuery]_vars

\* the external call a query is waiting for returns or fails
SettleCall ==
  \/ \E content \in InitialResponses : InitialResolve(1, content)
  \/ InitialReject(1)
  \/ \E r \in SysToolContents : ToolResolve(1, r)
  \/ ToolReject(1)
  \/ \E content \in SysFollowUpResponses : FollowUpResolve(1, content)
  \/ FollowUpReject(1)

NextQueryLive ==
  \/ \E body \in Bodies : Request(1, body)
  \/ SettleCall

\* a connected session serving one request, with every initial response, when no
\* external call stays pending for ever
SpecQueryLive == InitQuery /\ [][NextQueryLive]_vars /\ WF_vars(SettleCall)

\* what the outside gives to the request of slot q when requests overlap: each
\* slot has its own query, tool result and follow-up text
QueryOf(q) == IF q = 1 THEN "list files" ELSE "what is 2+2"
ResultOf(q) == IF q = 1 THEN "a.txt, b.txt" ELSE "hello"
FollowTextOf(q) == IF q = 1 THEN "Found" ELSE "4"
OverlapFollowUps(q) == { << >>, <<TextBlock(FollowTextOf(q))>> }

\* a connected session with overlapping requests, each with its own inputs
NextOverlap ==
  \E q \in Requests :
    \/ Request(q, QueryOf(q))
    \/ \E content \in SysInitialResponses : InitialResolve(q, content)
    \/ InitialReject(q)
    \/ ToolResolve(q, ResultOf(q))
    \/ ToolReject(q)
    \/ \E content \in OverlapFollowUps(q) : FollowUpResolve(q, content)
    \/ FollowUpReject(q)

SpecOverlap == InitQuery /\ [][NextOverlap]_vars

\* the whole program with shutdown signals, one request slot in use
Shutdown ==
  \/ Sigterm
  \/ CloseResolve
  \/ \E fatal \in BOOLEAN : CloseReject(fatal)

NextShutdown ==
  \/ Startup
  \/ Shutdown
  \/ \E body \in Bodies : Request(1, body)
  \/ \E content \in SysInitialResponses : InitialResolve(1, content)
  \/ InitialReject(1)
  \/ \E r \in SysToolContents : ToolResolve(1, r)
  \/ ToolReject(1)
  \/ \E content \in SysFollowUpResponses : FollowUpResolve(1, content)
  \/ FollowUpReject(1)

SpecShutdown == Init /\ [][NextShutdown]_vars

(***************************************************************************)
(* Vocabulary of the properties.                                           *)
(***************************************************************************)
IsToolUse(b) == b.type = "tool_use"
IsText(b) == b.type = "text"
ToolUsesOf(content) == SelectSeq(content, IsToolUse)
TextsOf(content) ==
  LET ts == SelectSeq(content, IsText) IN [i \in 1..Len(ts) |-> ts[i].text]

\* strs separated by single newlines, built from the right
RECURSIVE NewlineSeparated(_)
NewlineSeparated(strs) ==
  IF Len(strs) = 0 THEN ""
  ELSE LET front == SubSeq(strs, 1, Len(strs) - 1)
           last == strs[Len(strs)]
       IN IF Len(front) = 0 THEN last ELSE NewlineSeparated(front) \o "\n" \o last

\* positions of the log where a call of operation op is in phase ph
Positions(lg, op, ph) == {i \in 1..Len(lg) : lg[i].op = op /\ lg[i].phase = ph}
IsCallToolIssued(e) == e.op = "callTool" /\ e.phase = "issued"
IssuedToolCalls(lg) ==
  LET cs == SelectSeq(lg, IsCallToolIssued)
  IN [i \in 1..Len(cs) |-> <<cs[i].name, cs[i].arguments>>]
RequestedToolCalls(content) ==
  LET us == ToolUsesOf(content) IN [i \in 1..Len(us) |-> <<us[i].name, us[i].input>>]

\* no external call of the query failed
NoCallFailed(lg) == \A i \in 1..Len(lg) : lg[i].phase # "rejected"
\* processQuery was called for the request in slot q and has settled
Settled(q) == pc[q] = "done" /\ outcome[q].state # "none"
\* the initial model call of slot q resolved
InitialResolved(q) == Len(log[q]) >= 2 /\ log[q][2].phase = "resolved"

(***************************************************************************)
(* C1 .. C5: processQuery.                                                 *)
(***************************************************************************)
\* C1: a settled query none of whose external calls failed has issued exactly one
\* callTool per tool_use block of its initial response, in block order, and between
\* two successive callTool issues a model call (the follow-up) has resolved.
C1_ToolCallsInOrder ==
  \A q \in Requests :
    (Settled(q) /\ InitialResolved(q) /\ NoCallFailed(log[q])) =>
      /\ IssuedToolCalls(log[q]) = RequestedToolCalls(response[q])
      /\ \A i, j \in Positions(log[q], "callTool", "issued") :
           i < j => \E k \in Positions(log[q], "messages.create", "resolved") :
                      i < k /\ k < j

\* C2: a settled query whose initial response has no tool_use block returned the
\* texts of its text blocks, in order, separated by single newlines ("" when there
\* are none), and made one model call and no callTool.
C2_NoToolUseReturnsTexts ==
  \A q \in Requests :
    (Settled(q) /\ InitialResolved(q) /\ Len(ToolUsesOf(response[q])) = 0) =>
      /\ outcome[q] = Fulfilled(NewlineSeparated(TextsOf(response[q])))
      /\ Positions(log[q], "callTool", "issued") = {}
      /\ Positions(log[q], "messages.create", "issued") = {1}

\* C2 witness: an answer made of two text blocks around a skipped block
C2_Witness ==
  \E q \in Requests :
    /\ Settled(q) /\ InitialResolved(q)
    /\ Len(ToolUsesOf(response[q])) = 0
    /\ Len(TextsOf(response[q])) >= 2
    /\ Len(response[q]) > Len(TextsOf(response[q]))

\* the text taken from a follow-up response: that of its first block when it is a
\* text block, "" otherwise
FirstText(content) ==
  IF Len(content) >= 1 /\ content[1].type = "text" THEN content[1].text ELSE ""

\* the index of the only tool_use block of a response that has exactly one
OnlyToolUse(content) == CHOOSE i \in 1..Len(content) : IsToolUse(content[i])

\* C3: a settled query whose initial response has exactly one tool_use block and
\* whose calls all succeeded returned, separated by newlines: the texts before the
\* block, the trace line, the follow-up's text, the texts after the block.
C3_OneToolUseAnswer ==
  \A q \in Requests :
    (Settled(q) /\ InitialResolved(q) /\ NoCallFailed(log[q])
       /\ Len(ToolUsesOf(response[q])) = 1) =>
      LET content == response[q]
          t == OnlyToolUse(content)
          line == "[Calling tool " \o content[t].name \o " with args "
                    \o JSONStringify(content[t].input) \o "]"
      IN outcome[q] =
           Fulfilled(NewlineSeparated(
             TextsOf(SubSeq(content, 1, t - 1))
               \o <<line, FirstText(followUp[q])>>
               \o TextsOf(SubSeq(content, t + 1, Len(content)))))

\* C4: once a callTool of a query has rejected, that rejection is the last call of
\* the query, processQuery has rejected with the Tool Host's error, and the caller
\* was sent the error reply and none of the accumulated text.
C4_ToolFailureRejects ==
  \A q \in Requests :
    Positions(log[q], "callTool", "rejected") # {} =>
      /\ Positions(log[q], "callTool", "rejected") = {Len(log[q])}
      /\ pc[q] = "done"
      /\ outcome[q] = Rejected(ToolHostError)
      /\ http[q].status = 500 /\ http[q].body[1] = "error"

\* C4 witness: the second callTool failed after text had been accumulated
C4_Witness ==
  \E q \in Requests :
    /\ Positions(log[q], "callTool", "rejected") # {}
    /\ Cardinality(Positions(log[q], "callTool", "issued")) = 2
    /\ Len(finalText[q]) >= 2

\* C5: once a model call of a query has rejected, that rejection is the last call
\* of the query, processQuery has rejected with the model service's error, and the
\* caller was sent the error reply and no text; when it was the initial call, no
\* callTool was issued.
C5_ModelFailureRejects ==
  \A q \in Requests :
    Positions(log[q], "messages.create", "rejected") # {} =>
      /\ Positions(log[q], "messages.create", "rejected") = {Len(log[q])}
      /\ pc[q] = "done"
      /\ outcome[q] = Rejected(ModelServiceError)
      /\ http[q].status = 500 /\ http[q].body[1] = "error"
      /\ (Len(log[q]) = 2 => Positions(log[q], "callTool", "issued") = {})

\* C5 witness: a follow-up call failed while a later tool_use block was waiting
C5_Witness ==
  \E q \in Requests :
    /\ Positions(log[q], "messages.create", "rejected") # {}
    /\ Len(log[q]) > 2
    /\ \E i \in (idx[q] + 1)..Len(response[q]) : IsToolUse(response[q][i])

(***************************************************************************)
(* C6 .. C9: the chat endpoint and startup.                                *)
(***************************************************************************)
\* a step of a request leaves the session and the process as they were
C6_SessionUntouched ==
  (reqVars' # reqVars) =>
    UNCHANGED <<transport, tools, mcpConnect, mcpCalls, listening, exitStatus, mainPc>>

\* the replies of settled queries, and the session every query runs against
C6_Replies ==
  /\ \A q \in Requests :
       /\ outcome[q].state = "rejected" =>
            /\ http[q].status = 500
            /\ http[q].body[1] = "error"
            /\ \A p \in Requests : outcome[p].state = "fulfilled" => http[p] # http[q]
       /\ outcome[q].state = "fulfilled" =>
            http[q] = [status |-> 200, body |-> <<"response", outcome[q].value>>]
       /\ Len(log[q]) >= 1 => (log[q][1].hasTools /\ log[q][1].tools = tools)
  /\ (\E q \in Requests : pc[q] # "idle") =>
       (listening /\ transport # NullTransport)

\* C6: a rejected processQuery is answered with status 500 and an error body, a
\* fulfilled one with status 200 and {response: text}, so no failure reply equals
\* a success reply; every query's initial call carries the catalog the client
\* holds; and no step of a request changes the transport, the catalog, the
\* connection, the listening server or the life of the process.
C6_FailureIsStructured == [](C6_Replies) /\ [][C6_SessionUntouched]_vars

\* C6 witness: one query failed, another was answered with the empty string
C6_Witness ==
  \E p, q \in Requests :
    /\ outcome[p].state = "rejected" /\ http[p].status = 500
    /\ outcome[q] = Fulfilled("") /\ http[q].status = 200
    /\ exitStatus = "running"

\* C7 as stated: at most one callTool is in flight on the shared connection
C7_OneInFlight == Cardinality(inflight) <= 1

\* C7 amended: at most one callTool of each request is in flight, so at most as
\* many as there are requests inside processQuery.
C7_OneInFlightPerQuery ==
  /\ \A q \in Requests : Cardinality({c \in inflight : c.req = q}) <= 1
  /\ \A c \in inflight : pc[c.req] = "awaitTool" /\ c.idx = idx[c.req]
  /\ \A q \in Requests : pc[q] = "awaitTool" => \E c \in inflight : c.req = q

\* C7 witness: two overlapping requests, each with its callTool in flight, one of
\* them with a second tool_use block still to dispatch
C7_Witness ==
  \E p, q \in Requests :
    /\ p # q
    /\ pc[p] = "awaitTool" /\ pc[q] = "awaitTool"
    /\ Len(ToolUsesOf(response[p])) = 2 /\ idx[p] = 1

\* the last three characters of a path (fewer when it is shorter)
LastThree(path) ==
  [i \in 1..(IF Len(path) < 3 THEN Len(path) ELSE 3) |->
     path[Len(path) - (IF Len(path) < 3 THEN Len(path) ELSE 3) + i]]
Recognized(path) ==
  LastThree(path) = <<".", "j", "s">> \/ LastThree(path) = <<".", "p", "y">>

\* C8: once main has run with a path ending in neither .js nor .py,
\* connectToServer has thrown the invalid-script error, the transport is null, no
\* call was made on the Tool Host client, and the catalog is empty.
C8_InvalidScriptNoConnection ==
  (Len(argv) >= 1 /\ ~Recognized(argv[1]) /\ mainPc # "start") =>
    /\ connectError = InvalidScriptType
    /\ transport = NullTransport
    /\ mcpCalls = << >>
    /\ mcpConnect = "none"
    /\ tools = << >>
    /\ ~listening

\* C8 witness: the path s.jsx was refused
C8_Witness ==
  /\ argv = << <<"s", ".", "j", "s", "x">> >>
  /\ connectError = InvalidScriptType
  /\ exitStatus = "exit1"

\* C9 as stated: processQuery runs only once connectToServer has completed, the
\* server listens only with the catalog fetched, and when connecting or listing
\* has failed the process has not called processQuery and, if connectToServer
\* threw, has exited with a failure.
C9_NoQueryWithoutConnection ==
  /\ \A q \in Requests : Len(log[q]) >= 1 => (mainPc = "serving" /\ connectError = None)
  /\ listening => mainPc = "serving"
  /\ connectError # None => exitStatus = "exit1"
  /\ (connectError # None \/ mcpConnect = "rejected") =>
       \A q \in Requests : Len(log[q]) = 0

(***************************************************************************)
(* C11 .. C19.                                                             *)
(***************************************************************************)
\* C11: whatever shutdown signals arrive, close is called on the Tool Host client
\* at most once, and the process has exited through the SIGTERM handler only with
\* the channel closed.
C11_CloseOnce ==
  /\ closeCalls <= 1
  /\ (exitStatus = "exit0" /\ mainPc = "serving") => channelClosed

\* the model calls a query has issued, in order
IsCreateIssued(e) == e.op = "messages.create" /\ e.phase = "issued"
CreateIssues(lg) == SelectSeq(lg, IsCreateIssued)

\* the query of slot q followed by the results of its first k tool calls
ConversationAfter(q, k) ==
  <<[role |-> "user", content |-> query[q]]>>
    \o [i \in 1..k |-> [role |-> "user", content |-> toolResults[q][i].content]]

\* C12: the j-th model call of a query (the initial one, then the follow-ups) is
\* made with exactly j turns, the query followed by the results of the first j-1
\* tool calls in dispatch order, the last one a user turn; there is one follow-up
\* call per resolved callTool, and the conversation only grows.
C12_ConversationGrows ==
  \A q \in Requests :
    LET cs == CreateIssues(log[q]) IN
    /\ \A j \in 1..Len(cs) :
         /\ cs[j].messages = ConversationAfter(q, j - 1)
         /\ Len(cs[j].messages) = j
         /\ cs[j].messages[j].role = "user"
    /\ Len(cs) >= 1 =>
         /\ Len(cs) = 1 + Cardinality(Positions(log[q], "callTool", "resolved"))
         /\ messages[q] = cs[Len(cs)].messages

\* C12 witness: the second follow-up call, after two different tool results
C12_Witness ==
  \E q \in Requests :
    /\ Len(CreateIssues(log[q])) = 3
    /\ toolResults[q][1] # toolResults[q][2]

\* s is an initial segment of t
IsPrefix(s, t) == Len(s) <= Len(t) /\ SubSeq(t, 1, Len(s)) = s

\* C13: the callTool invocations of a query are, in order, those of tool_use blocks
\* of its initial response and nothing else, whatever the follow-ups contain; one
\* follow-up call is made per resolved callTool; a fulfilled query has made 1 + N
\* model calls for the N tool_use blocks of its initial response.
C13_NoNestedExpansion ==
  \A q \in Requests :
    /\ IsPrefix(IssuedToolCalls(log[q]), RequestedToolCalls(response[q]))
    /\ Len(CreateIssues(log[q])) <=
         1 + Cardinality(Positions(log[q], "callTool", "resolved"))
    /\ outcome[q].state = "fulfilled" =>
         /\ Len(CreateIssues(log[q])) = 1 + Len(ToolUsesOf(response[q]))
         /\ Len(IssuedToolCalls(log[q])) = Len(ToolUsesOf(response[q]))

\* C13 witness: a fulfilled query whose last follow-up asked for a tool
C13_Witness ==
  \E q \in Requests :
    /\ outcome[q].state = "fulfilled"
    /\ Len(ToolUsesOf(response[q])) >= 1
    /\ Len(followUp[q]) >= 1 /\ followUp[q][1].type = "tool_use"

\* the position of the k-th tool_use block of a response
ToolUseIndex(content, k) ==
  CHOOSE i \in 1..Len(content) :
    IsToolUse(content[i]) /\ Len(ToolUsesOf(SubSeq(content, 1, i))) = k

\* C14: finalText holds the texts of the blocks passed so far plus, for every
\* resolved callTool, the trace line and, for every resolved follow-up, one more
\* entry right after it: the text of the follow-up's first block when that is a
\* text block, "" in every other case.
C14_TwoEntriesPerToolCall ==
  \A q \in Requests :
    InitialResolved(q) =>
      LET content == response[q]
          passed == IF idx[q] > Len(content) THEN Len(content) ELSE idx[q]
          t == Cardinality(Positions(log[q], "callTool", "resolved"))
          f == Cardinality(Positions(log[q], "messages.create", "resolved")) - 1
      IN /\ Len(finalText[q]) = Len(TextsOf(SubSeq(content, 1, passed))) + t + f
         /\ f >= 1 =>
              LET b == ToolUseIndex(content, f)
                  pos == Len(TextsOf(SubSeq(content, 1, b - 1))) + 2 * (f - 1) + 1
              IN /\ Len(finalText[q]) > pos
                 /\ finalText[q][pos] =
                      "[Calling tool " \o content[b].name \o " with args "
                        \o JSONStringify(content[b].input) \o "]"
                 /\ finalText[q][pos + 1] = FirstText(followUp[q])

\* C15: of the model calls of a query exactly the first carries a tool catalog,
\* the one the client caches; every later call carries none.
C15_CatalogOnInitialCallOnly ==
  \A q \in Requests :
    LET cs == CreateIssues(log[q]) IN
    Len(cs) >= 1 =>
      /\ cs[1].hasTools /\ cs[1].tools = tools
      /\ \A j \in 2..Len(cs) : ~cs[j].hasTools /\ cs[j].tools = << >>
      /\ Cardinality({j \in 1..Len(cs) : cs[j].hasTools}) = 1

\* C15 witness: a follow-up call made by a client that caches a non-empty catalog
C15_Witness ==
  \E q \in Requests :
    /\ Len(CreateIssues(log[q])) >= 2
    /\ Len(tools) >= 1

\* a processQuery that has just been called holds only its query
C16_StartsFresh ==
  \A q \in Requests :
    pc[q] = "awaitInitial" =>
      /\ messages[q] = <<[role |-> "user", content |-> query[q]]>>
      /\ finalText[q] = << >>
      /\ toolResults[q] = << >>
      /\ Len(log[q]) = 1 /\ log[q][1].messages = messages[q]

\* a step of a request leaves the cached catalog and the connection handle alone
C16_SessionFrame ==
  (reqVars' # reqVars) => (tools' = tools /\ transport' = transport)

\* C16: every processQuery starts from the conversation [user: query], an empty
\* finalText and no tool results, whatever ran before it, and no step of any
\* processQuery changes the cached catalog or the transport.
C16_NoStateBetweenQueries == [](C16_StartsFresh) /\ [][C16_SessionFrame]_vars

\* C16 witness: a query starts while the text and the failure of other queries
\* are still around
C16_Witness ==
  \E p, q \in Requests :
    /\ pc[p] = "awaitInitial"
    /\ pc[q] = "done" /\ outcome[q].state = "rejected" /\ Len(finalText[q]) >= 1

\* what a query running alone has in finalText once it has passed the first
\* `passed` blocks of its response, t of its tool calls have resolved and f of its
\* follow-ups have delivered the text txt; i is the block to look at, k the
\* tool_use blocks before it
RECURSIVE SoloEntries(_, _, _, _, _, _, _)
SoloEntries(content, passed, t, f, txt, i, k) ==
  IF i > passed THEN << >>
  ELSE IF content[i].type = "text"
    THEN <<content[i].text>> \o SoloEntries(content, passed, t, f, txt, i + 1, k)
  ELSE IF content[i].type = "tool_use"
    THEN (IF k + 1 <= t
          THEN <<"[Calling tool " \o content[i].name \o " with args "
                   \o JSONStringify(content[i].input) \o "]">>
          ELSE << >>)
         \o (IF k + 1 <= f THEN <<txt>> ELSE << >>)
         \o SoloEntries(content, passed, t, f, txt, i + 1, k + 1)
  ELSE SoloEntries(content, passed, t, f, txt, i + 1, k)

\* C17: with requests overlapping in every order, the conversation of each query
\* is its own query followed by its own tool results, its finalText is what the
\* query would have alone from its own response, trace lines and follow-up texts,
\* and a fulfilled query returns the newline-join of exactly that.
C17_QueriesIsolated ==
  \A q \in Requests :
    Len(log[q]) >= 1 =>
      LET content == response[q]
          passed == IF idx[q] > Len(content) THEN Len(content) ELSE idx[q]
          t == Cardinality(Positions(log[q], "callTool", "resolved"))
          resolved == Cardinality(Positions(log[q], "messages.create", "resolved"))
          f == IF resolved >= 2 /\ Len(followUp[q]) = 0 THEN resolved - 2
               ELSE IF resolved >= 1 THEN resolved - 1 ELSE 0
          alone == SoloEntries(content, passed, t, f, FollowTextOf(q), 1, 0)
      IN /\ messages[q] =
              <<[role |-> "user", content |-> QueryOf(q)]>>
                \o [i \in 1..t |-> [role |-> "user", content |-> ResultOf(q)]]
         /\ finalText[q] = alone
         /\ outcome[q].state = "fulfilled" =>
              outcome[q].value = NewlineSeparated(alone)

\* C17 witness: two queries in progress at once, each past a tool call of its own
C17_Witness ==
  \E p, q \in Requests :
    /\ p # q
    /\ pc[p] = "awaitFollowUp"
    /\ pc[q] = "awaitTool" /\ Len(finalText[q]) >= 2
    /\ messages[p] # messages[q]

\* processQuery of slot q is waiting for an external call
Awaiting(q) == pc[q] \in {"awaitInitial", "awaitTool", "awaitFollowUp"}

\* the calls of a query so far: at most one callTool per tool_use block of the
\* initial response, a follow-up model call only straight after a resolved callTool,
\* every issued call settled at most once, and nothing after a failed call
NoRetry(q) ==
  LET lg == log[q]
  IN /\ IsPrefix(IssuedToolCalls(lg), RequestedToolCalls(response[q]))
     /\ Len(CreateIssues(lg)) <= 1 + Len(ToolUsesOf(response[q]))
     /\ \A i \in 2..Len(lg) :
          IsCreateIssued(lg[i]) =>
            lg[i - 1].op = "callTool" /\ lg[i - 1].phase = "resolved"
     /\ \A i \in 1..Len(lg) :
          lg[i].phase # "issued" =>
            i > 1 /\ lg[i - 1].phase = "issued" /\ lg[i - 1].op = lg[i].op
     /\ \A i \in 1..Len(lg) : lg[i].phase = "rejected" => i = Len(lg)

\* C18: when no external call stays pending for ever, a processQuery that is
\* waiting eventually settles (returns or throws), whatever the initial response;
\* and at every moment no call has been retried: at most one callTool and one
\* follow-up per tool_use block, and a failed call is the last call of the query.
C18_SettlesWithoutRetry ==
  /\ \A q \in Requests : Awaiting(q) ~> Settled(q)
  /\ [](\A q \in Requests : NoRetry(q))

\* C18 witness: a query settled by the failure of its second callTool
C18_Witness ==
  \E q \in Requests :
    /\ Settled(q) /\ outcome[q].state = "rejected"
    /\ Len(IssuedToolCalls(log[q])) >= 2
    /\ log[q][Len(log[q])].op = "callTool"

\* C19 as stated: listTools has been called only with the connect operation
\* fulfilled, never while it is pending, and once the connect operation has
\* rejected connectToServer has thrown its error and main has exited with 1.
C19_ListToolsAfterConnect ==
  /\ (\E i \in 1..Len(mcpCalls) : mcpCalls[i] = "listTools") => mcpConnect # "pending"
  /\ mcpConnect = "rejected" =>
       connectError # None /\ mainPc = "exited" /\ exitStatus = "exit1"

====
